---- MODULE Spec2Model ----
(***************************************************************************)
(* Threat detector service (securityBreach.go): N dispatch workers read    *)
(* security events, run the three rule evaluators against the Redis        *)
(* counters and push alerts onto the buffered alert channel.               *)
(*                                                                         *)
(* Text that the code searches with strings.Contains / strings.ToLower is  *)
(* modelled as a sequence of one-character strings, so that lower-casing   *)
(* and substring search are computed, not assumed.  Time is counted in     *)
(* minutes: the 5*time.Minute window of the code is Window = 5.            *)
(***************************************************************************)
EXTENDS Integers, Sequences, FiniteSets

(* ------------------------------ bounds -------------------------------- *)
\* number of dispatch workers started by Start(numWorkers)
NumWorkers == 2
\* messages the inbound topic delivers in one run
MaxEvents == 5
\* last minute of the wall clock that is explored
MaxTime == 6
\* capacity of the alert channel in the model (100 in NewThreatDetector)
ChanCap == 2

(* ------------------------- program constants -------------------------- *)
\* 5*time.Minute, in minutes
Window == 5
\* return count >= 5
BruteForceThreshold == 5
\* return count >= 3
SuspiciousUserThreshold == 3

(* ------------------------------ strings ------------------------------- *)
UpperCase == <<"A", "B", "C", "D", "E", "F", "G", "H", "I", "J", "K", "L", "M",
               "N", "O", "P", "Q", "R", "S", "T", "U", "V", "W", "X", "Y", "Z">>
LowerCase == <<"a", "b", "c", "d", "e", "f", "g", "h", "i", "j", "k", "l", "m",
               "n", "o", "p", "q", "r", "s", "t", "u", "v", "w", "x", "y", "z">>

\* strings.ToLower on one character
LowerChar(c) ==
    IF \E i \in 1..26 : UpperCase[i] = c
    THEN LowerCase[CHOOSE i \in 1..26 : UpperCase[i] = c]
    ELSE c

\* strings.ToLower
ToLower(s) == [i \in 1..Len(s) |-> LowerChar(s[i])]

\* strings.Contains(s, substr)
Contains(s, substr) ==
    \E i \in 0..(Len(s) - Len(substr)) : SubSeq(s, i + 1, i + Len(substr)) = substr

s_authentication == <<"a", "u", "t", "h", "e", "n", "t", "i", "c", "a", "t", "i", "o", "n">>
s_sudo == <<"s", "u", "d", "o">>
s_privilege == <<"p", "r", "i", "v", "i", "l", "e", "g", "e">>
s_etc_shadow == <<"/", "e", "t", "c", "/", "s", "h", "a", "d", "o", "w">>
s_etc_passwd == <<"/", "e", "t", "c", "/", "p", "a", "s", "s", "w", "d">>
s_root == <<"/", "r", "o", "o", "t">>
s_chmod_777 == <<"c", "h", "m", "o", "d", " ", "7", "7", "7">>
s_useradd == <<"u", "s", "e", "r", "a", "d", "d">>
s_invalid_user == <<"i", "n", "v", "a", "l", "i", "d", " ", "u", "s", "e", "r">>

\* the sensitive files/commands of isPrivilegeEscalation, in its order
sensitivePatterns == <<s_etc_shadow, s_etc_passwd, s_root, s_chmod_777, s_useradd>>

(* --------------------------- security events -------------------------- *)
\* event types: "authentication", "PRIVILEGE_CHANGE", "sudo_session"
t_PRIVILEGE_CHANGE == <<"P", "R", "I", "V", "I", "L", "E", "G", "E", "_", "C", "H", "A", "N", "G", "E">>
t_sudo_session == <<"s", "u", "d", "o", "_", "s", "e", "s", "s", "i", "o", "n">>
\* actions: "login", "Sudo", "privilege"
a_login == <<"l", "o", "g", "i", "n">>
a_Sudo == <<"S", "u", "d", "o">>
\* raw log lines
r_ok == <<"o", "k">>
r_cat_shadow == <<"s", "u", "d", "o", " ", "c", "a", "t", " ", "/", "e", "t", "c", "/", "s", "h", "a", "d", "o", "w">>
r_CAT_PASSWD == <<"c", "a", "t", " ", "/", "E", "T", "C", "/", "P", "A", "S", "S", "W", "D">>
r_ls_root == <<"l", "s", " ", "/", "r", "o", "o", "t">>
r_chmod_x == <<"c", "h", "m", "o", "d", " ", "7", "7", "7", " ", "x">>
r_useradd_bob == <<"u", "s", "e", "r", "a", "d", "d", " ", "b", "o", "b">>
r_Invalid_bob == <<"I", "n", "v", "a", "l", "i", "d", " ", "u", "s", "e", "r", " ", "b", "o", "b">>
r_invalid_shadow == <<"i", "n", "v", "a", "l", "i", "d", " ", "u", "s", "e", "r", " ", "s", "u", "d", "o", " ",
                      "/", "e", "t", "c", "/", "s", "h", "a", "d", "o", "w">>

SourceIPs == {"10.0.0.1", "10.0.0.2"}
EventTypes == {s_authentication, t_PRIVILEGE_CHANGE, t_sudo_session}
Actions == {a_login, a_Sudo, s_privilege}
Results == {"failed", "success"}
RawLogs == {r_ok, r_cat_shadow, r_CAT_PASSWD, r_ls_root, r_chmod_x, r_useradd_bob,
            r_Invalid_bob, r_invalid_shadow}

\* SecurityEvent: the fields the detector reads
SecurityEvent(ip, et, user, act, res, raw) ==
    [SourceIP |-> ip, EventType |-> et, User |-> user, Action |-> act,
     Result |-> res, RawLog |-> raw]

\* every combination of the field values above
AllEvents ==
    {SecurityEvent(ip, et, "bob", act, res, raw) :
        ip \in SourceIPs, et \in EventTypes, act \in Actions, res \in Results, raw \in RawLogs}

\* the events of the concurrent runs: a failed login of an unknown user
\* (brute force and suspicious user) and an unknown user running sudo on
\* /etc/shadow (suspicious user and privilege escalation)
StreamEvents ==
    {SecurityEvent("10.0.0.1", s_authentication, "bob", a_login, "failed", r_Invalid_bob),
     SecurityEvent("10.0.0.1", t_sudo_session, "bob", a_Sudo, "success", r_invalid_shadow)}

\* the event of the timed runs: a failed login of an unknown user
TimedEvents ==
    {SecurityEvent("10.0.0.1", s_authentication, "bob", a_login, "failed", r_Invalid_bob)}

NoEvent == [SourceIP |-> "", EventType |-> <<>>, User |-> "", Action |-> <<>>,
            Result |-> "", RawLog |-> <<>>]

(* --------------------------- counter store ---------------------------- *)
\* variant: one key per address, shared by the two rules
KeyByAddress(prefix, ip) == <<"counter:", ip>>

\* fmt.Sprintf("failed_auth:%s", ip), fmt.Sprintf("invalid_user:%s", ip)
Key(prefix, ip) == <<prefix, ip>>
\* variant: one failed_auth counter for all addresses
FailedAuthKeyShared(e) == Key("failed_auth:", "10.0.0.1")
FailedAuthKey(e) == Key("failed_auth:", e.SourceIP)
InvalidUserKey(e) == Key("invalid_user:", e.SourceIP)
Keys == {Key(p, ip) : p \in {"failed_auth:", "invalid_user:"}, ip \in SourceIPs}

\* a key without a time-to-live
NoExpiry == -1
\* a key that does not exist reads as value 0 without a time-to-live
Absent == [val |-> 0, exp |-> NoExpiry]

\* variant: a create-if-absent (SETNX) in place of the increment
IncrLossy(r, key) == [r EXCEPT ![key].val = IF @ = 0 THEN 1 ELSE @]

\* redisClient.Incr: atomic; an absent key becomes 1; the time-to-live is kept
Incr(r, key) == [r EXCEPT ![key].val = @ + 1]

\* variant: the time-to-live is set only on a key that has none
ExpireOnce(r, key, t, d) ==
    IF r[key].val = 0 \/ r[key].exp # NoExpiry THEN r ELSE [r EXCEPT ![key].exp = t + d]

\* redisClient.Expire(key, d) at time t: no effect on a key that does not exist
Expire(r, key, t, d) ==
    IF r[key].val = 0 THEN r ELSE [r EXCEPT ![key].exp = t + d]

\* the keys the store deletes when the clock reaches t
Expired(r, t) == {k \in Keys : r[k].exp # NoExpiry /\ r[k].exp <= t}

(* ---------------------------- rule evaluators ------------------------- *)
\* variant: && in place of || in the guard of isBruteForce
isFailedAuthenticationAnd(e) ==
    ~(e.EventType # s_authentication /\ e.Result # "failed")

\* isBruteForce: only failed authentication events are counted
isFailedAuthentication(e) ==
    ~(e.EventType # s_authentication \/ e.Result # "failed")

\* variant: count > 5
BruteForceReachedStrict(c) == c > BruteForceThreshold

\* isBruteForce: return count >= 5
BruteForceReached(c) == c >= BruteForceThreshold

\* variant: one below the threshold
SuspiciousUserReachedEarly(c) == c >= SuspiciousUserThreshold - 1

\* variant: only the count that reaches the threshold
SuspiciousUserReachedOnce(c) == c = SuspiciousUserThreshold

\* isSuspiciousUser: return count >= 3
SuspiciousUserReached(c) == c >= SuspiciousUserThreshold

\* variant: the fields are searched as they are, not lower-cased
isPrivilegeEscalationCaseSensitive(e) ==
    /\ \/ Contains(e.Action, s_sudo)
       \/ Contains(e.EventType, s_privilege)
    /\ \E i \in 1..Len(sensitivePatterns) :
           Contains(e.RawLog, sensitivePatterns[i])

\* isPrivilegeEscalation
isPrivilegeEscalation(e) ==
    /\ \/ Contains(ToLower(e.Action), s_sudo)
       \/ Contains(ToLower(e.EventType), s_privilege)
    /\ \E i \in 1..Len(sensitivePatterns) :
           Contains(ToLower(e.RawLog), sensitivePatterns[i])

\* isSuspiciousUser: only raw log lines with "invalid user" are counted
isInvalidUser(e) == Contains(ToLower(e.RawLog), s_invalid_user)

\* the three ThreatAlert values of detectThreats, built at time t
BruteForceAlert(e, t) ==
    [AlertID |-> <<"BF-", t>>, Timestamp |-> t, Severity |-> "HIGH",
     ThreatType |-> "BRUTE_FORCE", SourceIP |-> e.SourceIP,
     Details |-> <<"Brute force attack detected from ", e.SourceIP>>,
     EventCount |-> 0, RawEvents |-> <<>>]
\* variant: the escalation alert with the severity of the other two
PrivilegeEscalationAlertHigh(e, t) ==
    [AlertID |-> <<"PE-", t>>, Timestamp |-> t, Severity |-> "HIGH",
     ThreatType |-> "PRIVILEGE_ESCALATION", SourceIP |-> e.SourceIP,
     Details |-> <<"Privilege escalation attempt by ", e.User>>,
     EventCount |-> 0, RawEvents |-> <<>>]
PrivilegeEscalationAlert(e, t) ==
    [AlertID |-> <<"PE-", t>>, Timestamp |-> t, Severity |-> "MEDIUM",
     ThreatType |-> "PRIVILEGE_ESCALATION", SourceIP |-> e.SourceIP,
     Details |-> <<"Privilege escalation attempt by ", e.User>>,
     EventCount |-> 0, RawEvents |-> <<>>]
SuspiciousUserAlert(e, t) ==
    [AlertID |-> <<"SU-", t>>, Timestamp |-> t, Severity |-> "HIGH",
     ThreatType |-> "SUSPICIOUS_USER", SourceIP |-> e.SourceIP,
     Details |-> <<"Invalid user login attempts from ", e.SourceIP>>,
     EventCount |-> 0, RawEvents |-> <<>>]
NoAlert == [AlertID |-> <<"", 0>>, Timestamp |-> 0, Severity |-> "", ThreatType |-> "",
            SourceIP |-> "", Details |-> <<"", "">>, EventCount |-> 0, RawEvents |-> <<>>]

ThreatTypes == {"BRUTE_FORCE", "PRIVILEGE_ESCALATION", "SUSPICIOUS_USER"}

(* -------------------------------- state ------------------------------- *)
Workers == 1..NumWorkers

\* variant: Start does not launch the publisher
NoPublisher == {}

\* variant: a publisher is launched inside the loop that starts the workers
PublisherPerWorker == Workers

\* Start launches one publisher goroutine
Publishers == {1}

VARIABLES
    pc,         \* where each worker is in processEvents / detectThreats
    event,      \* the SecurityEvent each worker has in hand
    count,      \* the local `count` of isBruteForce / isSuspiciousUser
    alert,      \* the ThreatAlert a worker is about to send
    redis,      \* the counter store: key -> value and expiry time
    redisUp,    \* whether the store can be reached
    now,        \* the wall clock, in minutes
    alertChan,  \* td.alertChan
    nRead,      \* messages taken from the inbound topic so far
    \* history (not program state): what the properties speak about
    failed,     \* a store call has failed since the start
    hist,       \* per key: the increments since the key last was absent
    past,       \* per key: the histories that ended with the key's expiry
    slot,       \* per worker: the entry of hist its rule in progress made
    out,        \* per worker: threat types sent for the event in hand
    emitted,    \* threat type, source IP -> alerts sent so far
    fed,        \* key -> events read so far that its rule counts
    matched,    \* source IP -> events read so far that isPrivilegeEscalation matches
    ages,       \* source IP -> ages of its last counted failed logins
    \* shutdown and publishing
    canceled,   \* td.ctx is cancelled
    readerOpen, \* td.kafkaReader has not failed fatally
    err,        \* the error ReadMessage returned to each worker
    exited,     \* the workers whose deferred td.wg.Done() has run
    chanClosed, \* td.alertChan is closed
    coord,      \* where the coordinator is in the shutdown
    pub,        \* where each publisher is
    hand,       \* the alert a publisher has received and not yet written
    \* history (not program state)
    pending,    \* the alerts sent on the channel and not yet written out, oldest first
    mark,       \* the alerts pending when the shutdown was requested; which are written
    dropped,    \* messages skipped because they did not parse
    lost        \* alerts whose write to the outbound topic failed

vars == <<pc, event, count, alert, redis, redisUp, now, alertChan, nRead,
          failed, hist, past, slot, out, emitted, fed, matched, ages,
          canceled, readerOpen, err, exited, chanClosed, coord, pub, hand,
          pending, mark, dropped, lost>>

locals == <<pc, event, count, alert>>
ghosts == <<failed, hist, past, slot, out, emitted, fed, matched, ages>>
life == <<canceled, readerOpen, err, exited, chanClosed, coord, pub, hand, mark, lost>>

\* the state after NewThreatDetector and Start: the store holds r and is
\* reachable or not, n messages of the topic are already consumed
Started(r, up, n) ==
    /\ pc = [w \in Workers |-> "read"]
    /\ event = [w \in Workers |-> NoEvent]
    /\ count = [w \in Workers |-> 0]
    /\ alert = [w \in Workers |-> NoAlert]
    /\ redis = r
    /\ redisUp = up
    /\ now = 0
    /\ alertChan = <<>>
    /\ nRead = n
    /\ failed = FALSE
    /\ hist = [k \in Keys |-> <<>>]
    /\ past = [k \in Keys |-> <<>>]
    /\ slot = [w \in Workers |-> 0]
    /\ out = [w \in Workers |-> <<>>]
    /\ emitted = [t \in ThreatTypes |-> [ip \in SourceIPs |-> 0]]
    /\ fed = [k \in Keys |-> 0]
    /\ matched = [ip \in SourceIPs |-> 0]
    /\ ages = [ip \in SourceIPs |-> <<>>]
    /\ canceled = FALSE
    /\ readerOpen = TRUE
    /\ err = [w \in Workers |-> "nil"]
    /\ exited = {}
    /\ chanClosed = FALSE
    /\ coord = "running"
    /\ pub = [p \in Publishers |-> "receive"]
    /\ hand = [p \in Publishers |-> NoAlert]
    /\ pending = <<>>
    /\ mark = <<>>
    /\ dropped = 0
    /\ lost = 0

\* a first start, against an empty store
Init == Started([k \in Keys |-> Absent], TRUE, 0)

\* counters an earlier run or another replica has left in the store
StartCounters ==
    {Absent, [val |-> 1, exp |-> 5], [val |-> 2, exp |-> 4], [val |-> 3, exp |-> 2],
     [val |-> 4, exp |-> NoExpiry]}

\* a start against a store that holds counters, one message left on the topic
InitRules ==
    \E fa \in StartCounters, iu \in StartCounters, up \in BOOLEAN :
        Started([k \in Keys |-> IF k[1] = "failed_auth:" THEN fa ELSE iu], up, MaxEvents - 1)

(* --------------------------- history helpers -------------------------- *)
\* a new entry of a key's history: the value Incr returned; the number of
\* alerts sent for it is -1 until the evaluator has decided
Record(h, key, c) ==
    [h EXCEPT ![key] = Append(@, [count |-> c, alerts |-> -1])]

\* an age in minutes; everything older than the window reads Window + 1
Older(a) == IF a > Window THEN Window + 1 ELSE a + 1

\* the ages of the last BruteForceThreshold failed logins, newest first
Newest(a) == <<0>> \o SubSeq(a, 1, IF Len(a) < BruteForceThreshold THEN Len(a)
                                      ELSE BruteForceThreshold - 1)

\* entry i of the key's history got n alerts (i = 0: the key expired meanwhile)
Settle(h, key, i, n) ==
    IF i = 0 THEN h ELSE [h EXCEPT ![key][i].alerts = n]

\* the key of the counter a worker is working on, <<>> when none
KeyInHand(w) ==
    IF pc[w] \in {"bfExpire", "bfSend"} THEN FailedAuthKey(event[w])
    ELSE IF pc[w] \in {"suExpire", "suSend"} THEN InvalidUserKey(event[w])
    ELSE <<>>

(* ------------------------------ processEvents ------------------------- *)
\* kafkaReader.ReadMessage and json.Unmarshal succeed: the worker calls
\* detectThreats with an event of the set E
ReadMessage(w, E) ==
    /\ pc[w] = "read"
    /\ readerOpen
    /\ nRead < MaxEvents
    /\ \E e \in E :
        /\ event' = [event EXCEPT ![w] = e]
        /\ pc' = [pc EXCEPT ![w] = "bf"]
        /\ fed' = [k \in Keys |->
                     IF \/ k = FailedAuthKey(e) /\ isFailedAuthentication(e)
                        \/ k = InvalidUserKey(e) /\ isInvalidUser(e)
                     THEN fed[k] + 1 ELSE fed[k]]
        /\ matched' = [matched EXCEPT ![e.SourceIP] =
                         IF isPrivilegeEscalation(e) THEN @ + 1 ELSE @]
    /\ out' = [out EXCEPT ![w] = <<>>]
    /\ nRead' = nRead + 1
    /\ UNCHANGED <<count, alert, redis, redisUp, now, alertChan, failed, hist, past, slot,
                   emitted, ages>>
    /\ UNCHANGED <<life, pending, dropped>>

\* variant: the `continue` after the parse error is missing, detectThreats
\* runs on the zero-valued event
ParseErrorFallsThrough(w) ==
    /\ pc[w] = "read"
    /\ readerOpen
    /\ nRead < MaxEvents
    /\ nRead' = nRead + 1
    /\ pc' = [pc EXCEPT ![w] = "bf"]
    /\ event' = [event EXCEPT ![w] = NoEvent]
    /\ dropped' = dropped + 1
    /\ UNCHANGED <<count, alert, redis, redisUp, now, alertChan, ghosts, life, pending>>

\* json.Unmarshal fails: the message is logged and skipped
ParseError(w) ==
    /\ pc[w] = "read"
    /\ readerOpen
    /\ nRead < MaxEvents
    /\ nRead' = nRead + 1
    /\ UNCHANGED <<locals, redis, redisUp, now, alertChan, ghosts>>
    /\ dropped' = dropped + 1
    /\ UNCHANGED <<life, pending>>

(* ------------------------------ isBruteForce -------------------------- *)
\* variant: an error of Incr ends the dispatch of the event
BruteForceIncrAbort(w) ==
    /\ pc[w] = "bf"
    /\ LET e == event[w]
           key == FailedAuthKey(e)
       IN  IF ~isFailedAuthentication(e)
           THEN /\ pc' = [pc EXCEPT ![w] = "pe"]
                /\ UNCHANGED <<count, redis, failed, hist, slot, ages>>
           ELSE \/ /\ redisUp
                   /\ redis' = Incr(redis, key)
                   /\ count' = [count EXCEPT ![w] = redis'[key].val]
                   /\ pc' = [pc EXCEPT ![w] = "bfExpire"]
                   /\ hist' = Record(hist, key, redis'[key].val)
                   /\ slot' = [slot EXCEPT ![w] = Len(hist'[key])]
                   /\ ages' = [ages EXCEPT ![e.SourceIP] = Newest(@)]
                   /\ UNCHANGED failed
                \/ /\ ~redisUp
                   /\ failed' = TRUE
                   /\ pc' = [pc EXCEPT ![w] = "read"]
                   /\ UNCHANGED <<count, redis, hist, slot, ages>>
    /\ UNCHANGED <<event, alert, redisUp, now, alertChan, nRead, past, out, emitted, fed, matched>>
    /\ UNCHANGED <<life, pending, dropped>>

\* the event-type test and redisClient.Incr
BruteForceIncr(w) ==
    /\ pc[w] = "bf"
    /\ LET e == event[w]
           key == FailedAuthKey(e)
       IN  IF ~isFailedAuthentication(e)
           THEN /\ pc' = [pc EXCEPT ![w] = "pe"]
                /\ UNCHANGED <<count, redis, failed, hist, slot, ages>>
           ELSE \/ /\ redisUp
                   /\ redis' = Incr(redis, key)
                   /\ count' = [count EXCEPT ![w] = redis'[key].val]
                   /\ pc' = [pc EXCEPT ![w] = "bfExpire"]
                   /\ hist' = Record(hist, key, redis'[key].val)
                   /\ slot' = [slot EXCEPT ![w] = Len(hist'[key])]
                   /\ ages' = [ages EXCEPT ![e.SourceIP] = Newest(@)]
                   /\ UNCHANGED failed
                \/ /\ ~redisUp
                   /\ failed' = TRUE
                   /\ pc' = [pc EXCEPT ![w] = "pe"]
                   /\ UNCHANGED <<count, redis, hist, slot, ages>>
    /\ UNCHANGED <<event, alert, redisUp, now, alertChan, nRead, past, out, emitted, fed, matched>>
    /\ UNCHANGED <<life, pending, dropped>>

\* redisClient.Expire (its error is not read) and `return count >= 5`
BruteForceExpire(w) ==
    /\ pc[w] = "bfExpire"
    /\ LET e == event[w]
           key == FailedAuthKey(e)
       IN  /\ redis' = IF redisUp THEN Expire(redis, key, now, Window) ELSE redis
           /\ failed' = (failed \/ ~redisUp)
           /\ IF BruteForceReached(count[w])
              THEN /\ alert' = [alert EXCEPT ![w] = BruteForceAlert(e, now)]
                   /\ pc' = [pc EXCEPT ![w] = "bfSend"]
                   /\ UNCHANGED <<hist, slot>>
              ELSE /\ pc' = [pc EXCEPT ![w] = "pe"]
                   /\ hist' = Settle(hist, key, slot[w], 0)
                   /\ slot' = [slot EXCEPT ![w] = 0]
                   /\ UNCHANGED alert
    /\ count' = [count EXCEPT ![w] = 0]
    /\ UNCHANGED <<event, redisUp, now, alertChan, nRead, past, out, emitted, fed, matched, ages>>
    /\ UNCHANGED <<life, pending, dropped>>

\* variant: a non-blocking send (select with default): the alert is dropped
\* when the channel is full
SendOrDrop(w, next) ==
    /\ pc' = [pc EXCEPT ![w] = next]
    /\ alert' = [alert EXCEPT ![w] = NoAlert]
    /\ IF Len(alertChan) < ChanCap
       THEN /\ alertChan' = Append(alertChan, alert[w])
            /\ emitted' = [emitted EXCEPT ![alert[w].ThreatType][alert[w].SourceIP] = @ + 1]
            /\ pending' = Append(pending, alert[w])
       ELSE UNCHANGED <<alertChan, emitted, pending>>
    /\ UNCHANGED <<count, redis, redisUp, now, nRead, failed, past, fed, matched, ages>>
    /\ UNCHANGED <<life, dropped>>

\* variant: the send is a select with <-ctx.Done(): after the cancellation
\* the worker returns with the alert unsent
SendOrReturn(w, next) ==
    /\ alert' = [alert EXCEPT ![w] = NoAlert]
    /\ IF canceled
       THEN /\ pc' = [pc EXCEPT ![w] = "done"]
            /\ UNCHANGED <<alertChan, emitted, pending>>
       ELSE /\ Len(alertChan) < ChanCap
            /\ pc' = [pc EXCEPT ![w] = next]
            /\ alertChan' = Append(alertChan, alert[w])
            /\ emitted' = [emitted EXCEPT ![alert[w].ThreatType][alert[w].SourceIP] = @ + 1]
            /\ pending' = Append(pending, alert[w])
    /\ UNCHANGED <<count, redis, redisUp, now, nRead, failed, past, fed, matched, ages>>
    /\ UNCHANGED <<life, dropped>>

\* td.alertChan <- alert: blocks while the channel is full
Send(w, next) ==
    /\ Len(alertChan) < ChanCap
    /\ alertChan' = Append(alertChan, alert[w])
    /\ pc' = [pc EXCEPT ![w] = next]
    /\ alert' = [alert EXCEPT ![w] = NoAlert]
    /\ emitted' = [emitted EXCEPT ![alert[w].ThreatType][alert[w].SourceIP] = @ + 1]
    /\ UNCHANGED <<count, redis, redisUp, now, nRead, failed, past, fed, matched, ages>>
    /\ pending' = Append(pending, alert[w])
    /\ UNCHANGED <<life, dropped>>

SendBruteForce(w) ==
    /\ pc[w] = "bfSend"
    /\ Send(w, "pe")
    /\ out' = [out EXCEPT ![w] = Append(@, alert[w].ThreatType)]
    /\ UNCHANGED event
    /\ hist' = Settle(hist, FailedAuthKey(event[w]), slot[w], 1)
    /\ slot' = [slot EXCEPT ![w] = 0]

(* -------------------------- isPrivilegeEscalation --------------------- *)
\* variant: one escalation alert per address, later ones are suppressed
CheckPrivilegeEscalationOnce(w) ==
    /\ pc[w] = "pe"
    /\ IF isPrivilegeEscalation(event[w])
          /\ emitted["PRIVILEGE_ESCALATION"][event[w].SourceIP] = 0
       THEN /\ alert' = [alert EXCEPT ![w] = PrivilegeEscalationAlert(event[w], now)]
            /\ pc' = [pc EXCEPT ![w] = "peSend"]
       ELSE /\ pc' = [pc EXCEPT ![w] = "su"]
            /\ UNCHANGED alert
    /\ UNCHANGED <<event, count, redis, redisUp, now, alertChan, nRead, failed, hist, past,
                   slot, out, emitted, fed, matched, ages>>
    /\ UNCHANGED <<life, pending, dropped>>

\* the call of isPrivilegeEscalation and the construction of its alert
CheckPrivilegeEscalation(w) ==
    /\ pc[w] = "pe"
    /\ IF isPrivilegeEscalation(event[w])
       THEN /\ alert' = [alert EXCEPT ![w] = PrivilegeEscalationAlert(event[w], now)]
            /\ pc' = [pc EXCEPT ![w] = "peSend"]
       ELSE /\ pc' = [pc EXCEPT ![w] = "su"]
            /\ UNCHANGED alert
    /\ UNCHANGED <<event, count, redis, redisUp, now, alertChan, nRead, failed, hist, past,
                   slot, out, emitted, fed, matched, ages>>
    /\ UNCHANGED <<life, pending, dropped>>

SendPrivilegeEscalation(w) ==
    /\ pc[w] = "peSend"
    /\ Send(w, "su")
    /\ out' = [out EXCEPT ![w] = Append(@, alert[w].ThreatType)]
    /\ UNCHANGED event
    /\ UNCHANGED <<hist, slot>>

(* ----------------------------- isSuspiciousUser ----------------------- *)
\* the raw-log test and redisClient.Incr
SuspiciousUserIncr(w) ==
    /\ pc[w] = "su"
    /\ LET e == event[w]
           key == InvalidUserKey(e)
       IN  IF ~isInvalidUser(e)
           THEN /\ pc' = [pc EXCEPT ![w] = "read"]
                /\ event' = [event EXCEPT ![w] = NoEvent]
                /\ out' = [out EXCEPT ![w] = <<>>]
                /\ UNCHANGED <<count, redis, failed, hist, slot>>
           ELSE \/ /\ redisUp
                   /\ redis' = Incr(redis, key)
                   /\ count' = [count EXCEPT ![w] = redis'[key].val]
                   /\ pc' = [pc EXCEPT ![w] = "suExpire"]
                   /\ hist' = Record(hist, key, redis'[key].val)
                   /\ slot' = [slot EXCEPT ![w] = Len(hist'[key])]
                   /\ UNCHANGED <<event, out, failed>>
                \/ /\ ~redisUp
                   /\ failed' = TRUE
                   /\ pc' = [pc EXCEPT ![w] = "read"]
                   /\ event' = [event EXCEPT ![w] = NoEvent]
                   /\ out' = [out EXCEPT ![w] = <<>>]
                   /\ UNCHANGED <<count, redis, hist, slot>>
    /\ UNCHANGED <<alert, redisUp, now, alertChan, nRead, past, emitted, fed, matched, ages>>
    /\ UNCHANGED <<life, pending, dropped>>

\* redisClient.Expire (its error is not read) and `return count >= 3`
SuspiciousUserExpire(w) ==
    /\ pc[w] = "suExpire"
    /\ LET e == event[w]
           key == InvalidUserKey(e)
       IN  /\ redis' = IF redisUp THEN Expire(redis, key, now, Window) ELSE redis
           /\ failed' = (failed \/ ~redisUp)
           /\ IF SuspiciousUserReached(count[w])
              THEN /\ alert' = [alert EXCEPT ![w] = SuspiciousUserAlert(e, now)]
                   /\ pc' = [pc EXCEPT ![w] = "suSend"]
                   /\ UNCHANGED <<event, out, hist, slot>>
              ELSE /\ pc' = [pc EXCEPT ![w] = "read"]
                   /\ event' = [event EXCEPT ![w] = NoEvent]
                   /\ out' = [out EXCEPT ![w] = <<>>]
                   /\ hist' = Settle(hist, key, slot[w], 0)
                   /\ slot' = [slot EXCEPT ![w] = 0]
                   /\ UNCHANGED alert
    /\ count' = [count EXCEPT ![w] = 0]
    /\ UNCHANGED <<redisUp, now, alertChan, nRead, past, emitted, fed, matched, ages>>
    /\ UNCHANGED <<life, pending, dropped>>

SendSuspiciousUser(w) ==
    /\ pc[w] = "suSend"
    /\ Send(w, "read")
    /\ event' = [event EXCEPT ![w] = NoEvent]
    /\ out' = [out EXCEPT ![w] = <<>>]
    /\ hist' = Settle(hist, InvalidUserKey(event[w]), slot[w], 1)
    /\ slot' = [slot EXCEPT ![w] = 0]

(* ------------------------------ environment --------------------------- *)
\* the alert publisher takes the oldest alert off the channel and writes it
\* to the outbound topic, seen as one step
PublishAlerts ==
    /\ alertChan # <<>>
    /\ alertChan' = Tail(alertChan)
    /\ UNCHANGED <<locals, redis, redisUp, now, nRead, ghosts>>
    /\ pending' = Tail(pending)
    /\ UNCHANGED <<life, dropped>>

\* one minute passes; the store deletes the keys whose time-to-live is over
Tick ==
    /\ now < MaxTime
    /\ now' = now + 1
    /\ LET gone == Expired(redis, now + 1)
       IN  /\ redis' = [k \in Keys |-> IF k \in gone THEN Absent ELSE redis[k]]
           /\ past' = [k \in Keys |-> IF k \in gone THEN Append(past[k], hist[k]) ELSE past[k]]
           /\ hist' = [k \in Keys |-> IF k \in gone THEN <<>> ELSE hist[k]]
           /\ slot' = [w \in Workers |-> IF KeyInHand(w) \in gone THEN 0 ELSE slot[w]]
    /\ ages' = [ip \in SourceIPs |-> [i \in 1..Len(ages[ip]) |-> Older(ages[ip][i])]]
    /\ UNCHANGED <<locals, redisUp, alertChan, nRead, failed, out, emitted, fed, matched>>
    /\ UNCHANGED <<life, pending, dropped>>

\* the connection to the store is lost, or comes back
StoreDown ==
    /\ redisUp
    /\ redisUp' = FALSE
    /\ UNCHANGED <<locals, redis, now, alertChan, nRead, ghosts>>
    /\ UNCHANGED <<life, pending, dropped>>

StoreUp ==
    /\ ~redisUp
    /\ redisUp' = TRUE
    /\ UNCHANGED <<locals, redis, now, alertChan, nRead, ghosts>>
    /\ UNCHANGED <<life, pending, dropped>>

(* ------------------------ read errors and shutdown --------------------- *)
\* the events of the shutdown runs: sudo on /etc/shadow, from either address
LifeEvents ==
    {SecurityEvent(ip, t_sudo_session, "bob", a_Sudo, "success", r_cat_shadow) :
        ip \in SourceIPs}

\* the errors ReadMessage can return: the context's error once it is
\* cancelled, io.EOF once the reader is closed (either, when both hold)
ReadErrors ==
    (IF canceled THEN {"context.Canceled"} ELSE {})
        \cup (IF readerOpen THEN {} ELSE {"io.EOF"})

\* kafkaReader.ReadMessage returns an error
ReadFails(w) ==
    /\ pc[w] = "read"
    /\ \E e \in ReadErrors : err' = [err EXCEPT ![w] = e]
    /\ pc' = [pc EXCEPT ![w] = "readErr"]
    /\ UNCHANGED <<event, count, alert, redis, redisUp, now, alertChan, nRead, ghosts,
                   canceled, readerOpen, exited, chanClosed, coord, pub, hand, mark,
                   pending, dropped, lost>>

\* variant: td.wg.Done() is called in the error branch, not deferred
ReadErrorDoneFirst(w) ==
    /\ pc[w] = "readErr"
    /\ exited' = exited \cup {w}
    /\ IF err[w] = "context.Canceled"
       THEN pc' = [pc EXCEPT ![w] = "done"]
       ELSE pc' = [pc EXCEPT ![w] = "read"]
    /\ err' = [err EXCEPT ![w] = "nil"]
    /\ UNCHANGED <<event, count, alert, redis, redisUp, now, alertChan, nRead, ghosts,
                   canceled, readerOpen, chanClosed, coord, pub, hand, mark,
                   pending, dropped, lost>>

\* if err == context.Canceled the worker returns and the deferred
\* td.wg.Done() runs; any other error is logged and the loop continues
ReadError(w) ==
    /\ pc[w] = "readErr"
    /\ IF err[w] = "context.Canceled"
       THEN /\ pc' = [pc EXCEPT ![w] = "done"]
            /\ exited' = exited \cup {w}
       ELSE /\ pc' = [pc EXCEPT ![w] = "read"]
            /\ UNCHANGED exited
    /\ err' = [err EXCEPT ![w] = "nil"]
    /\ UNCHANGED <<event, count, alert, redis, redisUp, now, alertChan, nRead, ghosts,
                   canceled, readerOpen, chanClosed, coord, pub, hand, mark,
                   pending, dropped, lost>>

\* the inbound transport fails for good (the reader is closed)
ReaderFails ==
    /\ readerOpen
    /\ readerOpen' = FALSE
    /\ UNCHANGED <<locals, redis, redisUp, now, alertChan, nRead, ghosts,
                   canceled, err, exited, chanClosed, coord, pub, hand, mark,
                   pending, dropped, lost>>

RECURSIVE Total(_, _)
\* the sum of f over S
Total(f, S) ==
    IF S = {} THEN 0
    ELSE LET x == CHOOSE y \in S : TRUE IN f[x] + Total(f, S \ {x})

\* alerts sent on the channel so far, and those already written out
Enqueued == Total([t \in ThreatTypes |-> Total(emitted[t], SourceIPs)], ThreatTypes)
Handed == Enqueued - Len(pending)

\* Shutdown, step 1: the cancellation signal is raised (NewThreatDetector
\* stores context.Background(); the cancellation is the design's)
ShutdownCancel ==
    /\ coord = "running"
    /\ canceled' = TRUE
    /\ coord' = "waiting"
    /\ mark' = [i \in 1..Len(pending) |-> [alert |-> pending[i], handed |-> FALSE]]
    /\ UNCHANGED <<locals, redis, redisUp, now, alertChan, nRead, ghosts,
                   readerOpen, err, exited, chanClosed, pub, hand, pending, dropped, lost>>

\* Shutdown, step 2: every worker has finished (Start registers the
\* publisher in the same WaitGroup as the workers; the wait modelled here is
\* for the workers alone, as the design states it)
ShutdownWait ==
    /\ coord = "waiting"
    /\ exited = Workers
    /\ coord' = "closing"
    /\ UNCHANGED <<locals, redis, redisUp, now, alertChan, nRead, ghosts,
                   canceled, readerOpen, err, exited, chanClosed, pub, hand, mark,
                   pending, dropped, lost>>

\* td.wg: the goroutines Start has registered with wg.Add(1) and that have
\* not called wg.Done(): the workers and the publisher
WaitGroup ==
    (NumWorkers - Cardinality(exited))
        + Cardinality({p \in Publishers : pub[p] # "done"})

\* Shutdown, step 2 as td.wg.Wait(): the wait on the detector's WaitGroup
ShutdownWaitGroup ==
    /\ coord = "waiting"
    /\ WaitGroup = 0
    /\ coord' = "closing"
    /\ UNCHANGED <<locals, redis, redisUp, now, alertChan, nRead, ghosts,
                   canceled, readerOpen, err, exited, chanClosed, pub, hand, mark,
                   pending, dropped, lost>>

\* Shutdown, step 3: the alert channel is closed
ShutdownClose ==
    /\ coord = "closing"
    /\ chanClosed' = TRUE
    /\ coord' = "releasing"
    /\ UNCHANGED <<locals, redis, redisUp, now, alertChan, nRead, ghosts,
                   canceled, readerOpen, err, exited, pub, hand, mark, pending, dropped, lost>>

\* Shutdown, step 4: the transports are released
ShutdownRelease ==
    /\ coord = "releasing"
    /\ readerOpen' = FALSE
    /\ coord' = "stopped"
    /\ UNCHANGED <<locals, redis, redisUp, now, alertChan, nRead, ghosts,
                   canceled, err, exited, chanClosed, pub, hand, mark, pending, dropped, lost>>

(* ------------------------------ publishAlerts ------------------------- *)
\* q without the first occurrence of x
Without(q, x) ==
    IF \E i \in 1..Len(q) : q[i] = x
    THEN LET i == CHOOSE j \in 1..Len(q) : q[j] = x /\ \A k \in 1..(j - 1) : q[k] # x
         IN  SubSeq(q, 1, i - 1) \o SubSeq(q, i + 1, Len(q))
    ELSE q

\* the publisher receives the oldest alert of the channel
PublisherReceive(p) ==
    /\ pub[p] = "receive"
    /\ alertChan # <<>>
    /\ hand' = [hand EXCEPT ![p] = Head(alertChan)]
    /\ alertChan' = Tail(alertChan)
    /\ pub' = [pub EXCEPT ![p] = "write"]
    /\ UNCHANGED <<locals, redis, redisUp, now, nRead, ghosts,
                   canceled, readerOpen, err, exited, chanClosed, coord, mark,
                   pending, dropped, lost>>

\* the first entry of mk for alert a that is not yet written, now written
MarkHanded(mk, a) ==
    LET open == {i \in 1..Len(mk) : mk[i].alert = a /\ ~mk[i].handed}
    IN  IF open = {} THEN mk
        ELSE [mk EXCEPT ![CHOOSE i \in open : \A j \in open : i <= j].handed = TRUE]

\* the publisher hands the alert to the outbound transport
PublisherWrite(p) ==
    /\ pub[p] = "write"
    /\ pending' = Without(pending, hand[p])
    /\ mark' = MarkHanded(mark, hand[p])
    /\ hand' = [hand EXCEPT ![p] = NoAlert]
    /\ pub' = [pub EXCEPT ![p] = "receive"]
    /\ UNCHANGED <<locals, redis, redisUp, now, alertChan, nRead, ghosts,
                   canceled, readerOpen, err, exited, chanClosed, coord, dropped, lost>>

\* variant: a failed write is tried again with the same alert
PublisherWriteRetries(p) ==
    /\ pub[p] = "write"
    /\ lost' = lost + 1
    /\ UNCHANGED <<locals, redis, redisUp, now, alertChan, nRead, ghosts,
                   canceled, readerOpen, err, exited, chanClosed, coord, pub, hand, mark,
                   pending, dropped>>

\* the write to the outbound transport fails: the alert is logged and dropped
PublisherWriteFails(p) ==
    /\ pub[p] = "write"
    /\ pending' = Without(pending, hand[p])
    /\ mark' = MarkHanded(mark, hand[p])
    /\ hand' = [hand EXCEPT ![p] = NoAlert]
    /\ pub' = [pub EXCEPT ![p] = "receive"]
    /\ UNCHANGED <<locals, redis, redisUp, now, alertChan, nRead, ghosts,
                   canceled, readerOpen, err, exited, chanClosed, coord, dropped>>
    /\ lost' = lost + 1

\* the channel is closed and drained: the publisher returns
PublisherExit(p) ==
    /\ pub[p] = "receive"
    /\ alertChan = <<>>
    /\ chanClosed
    /\ pub' = [pub EXCEPT ![p] = "done"]
    /\ UNCHANGED <<locals, redis, redisUp, now, alertChan, nRead, ghosts,
                   canceled, readerOpen, err, exited, chanClosed, coord, hand, mark,
                   pending, dropped, lost>>

(* ---------------------------- specifications -------------------------- *)
\* detectThreats, one call of an evaluator or one channel send at a time
Detect(w) ==
    \/ BruteForceIncr(w)
    \/ BruteForceExpire(w)
    \/ SendBruteForce(w)
    \/ CheckPrivilegeEscalation(w)
    \/ SendPrivilegeEscalation(w)
    \/ SuspiciousUserIncr(w)
    \/ SuspiciousUserExpire(w)
    \/ SendSuspiciousUser(w)

\* N workers against one store, all within one minute of the clock
Next ==
    \/ \E w \in Workers : ReadMessage(w, StreamEvents)
    \/ \E w \in Workers : ParseError(w)
    \/ \E w \in Workers : Detect(w)
    \/ PublishAlerts

Spec == Init /\ [][Next]_vars

\* one worker, the clock running
NextTimed ==
    \/ ReadMessage(1, TimedEvents)
    \/ BruteForceIncr(1)
    \/ BruteForceExpire(1)
    \/ SendBruteForce(1)
    \/ CheckPrivilegeEscalation(1)
    \/ SuspiciousUserIncr(1)
    \/ SuspiciousUserExpire(1)
    \/ SendSuspiciousUser(1)
    \/ PublishAlerts
    \/ Tick

TimedSpec == Init /\ [][NextTimed]_vars

\* one worker and one event, of any content, against any store
NextRules ==
    \/ ReadMessage(1, AllEvents)
    \/ Detect(1)
    \/ PublishAlerts
    \/ StoreDown
    \/ StoreUp

RulesSpec == InitRules /\ [][NextRules]_vars

\* a start with three messages left on the topic
InitLife == Started([k \in Keys |-> Absent], TRUE, MaxEvents - 3)

\* N workers, the publisher and the coordinator, from start to shutdown
NextLife ==
    \/ \E w \in Workers : ReadMessage(w, LifeEvents)
    \/ \E w \in Workers : ReadFails(w)
    \/ \E w \in Workers : ReadError(w)
    \/ \E w \in Workers : BruteForceIncr(w)
    \/ \E w \in Workers : CheckPrivilegeEscalation(w)
    \/ \E w \in Workers : SendPrivilegeEscalation(w)
    \/ \E w \in Workers : SuspiciousUserIncr(w)
    \/ \E p \in Publishers : PublisherReceive(p)
    \/ \E p \in Publishers : PublisherWrite(p)
    \/ \E p \in Publishers : PublisherExit(p)
    \/ ReaderFails
    \/ ShutdownCancel
    \/ ShutdownWait
    \/ ShutdownClose
    \/ ShutdownRelease

LifeSpec == InitLife /\ [][NextLife]_vars

\* the publisher goroutine is scheduled whenever it can run
FairLifeSpec ==
    /\ LifeSpec
    /\ WF_vars(\E p \in Publishers : PublisherReceive(p))
    /\ WF_vars(\E p \in Publishers : PublisherWrite(p))

\* the run up to Shutdown's wait on td.wg: the steps of Shutdown that come
\* after the wait, ShutdownClose and ShutdownRelease, and with them the
\* publisher's exit on the closed channel, wait for ShutdownWaitGroup
NextWait ==
    \/ \E w \in Workers : ReadMessage(w, LifeEvents)
    \/ \E w \in Workers : ReadFails(w)
    \/ \E w \in Workers : ReadError(w)
    \/ \E w \in Workers : BruteForceIncr(w)
    \/ \E w \in Workers : CheckPrivilegeEscalation(w)
    \/ \E w \in Workers : SendPrivilegeEscalation(w)
    \/ \E w \in Workers : SuspiciousUserIncr(w)
    \/ \E p \in Publishers : PublisherReceive(p)
    \/ \E p \in Publishers : PublisherWrite(p)
    \/ ReaderFails
    \/ ShutdownCancel

WaitSpec == InitLife /\ [][NextWait]_vars

\* the same, with an outbound transport whose writes can fail
NextOut ==
    \/ NextLife
    \/ \E p \in Publishers : PublisherWriteFails(p)

OutSpec == InitLife /\ [][NextOut]_vars

\* every goroutine is scheduled whenever it can run


(* --------------------------- properties: helpers ---------------------- *)
BruteForceStage == {"bf", "bfExpire", "bfSend"}
EscalationStage == {"pe", "peSend"}
SuspiciousStage == {"su", "suExpire", "suSend"}

\* worker w takes a step of detectThreats from a position in S
Steps(w, S) == pc[w] \in S /\ pc'[w] # pc[w]

\* how often x occurs in the sequence q
Occurrences(q, x) == Cardinality({i \in 1..Len(q) : q[i] = x})

\* a worker is about to send a well-formed alert of the given type and severity
Sending(w, type, severity) ==
    /\ alert[w].ThreatType = type
    /\ alert[w].Severity = severity
    /\ alert[w].SourceIP = event[w].SourceIP

(* --------------------------------- C1 --------------------------------- *)
\* C1: from an absent failed_auth counter, with the store available and no
\* expiry in between, the first four failed logins of an address send no
\* BRUTE_FORCE alert and the fifth sends exactly one HIGH BRUTE_FORCE alert.
C1_FifthFailedLoginAlerts ==
    \A ip \in SourceIPs :
        LET h == hist[Key("failed_auth:", ip)]
        IN  ~failed =>
              /\ \A i \in 1..Len(h) : i < 5 => h[i].alerts # 1
              /\ Len(h) >= 5 => h[5].alerts # 0
              /\ \A w \in Workers :
                    (pc[w] = "bfSend" /\ event[w].SourceIP = ip /\ slot[w] # 0) =>
                        /\ slot[w] >= 5
                        /\ Sending(w, "BRUTE_FORCE", "HIGH")
              /\ \A w \in Workers :
                    (pc[w] \in {"pe", "peSend", "su", "suExpire", "suSend"}
                        /\ event[w].SourceIP = ip /\ Len(h) = 5 /\ h[5].alerts = 1
                        /\ past[Key("failed_auth:", ip)] = <<>>
                        /\ Occurrences(out[w], "BRUTE_FORCE") > 0) =>
                            /\ Occurrences(out[w], "BRUTE_FORCE") = 1
                            /\ emitted["BRUTE_FORCE"][ip] = 1

\* five failed logins were counted in one window; only the fifth alerted
C1_Witness ==
    LET h == hist[Key("failed_auth:", "10.0.0.1")]
    IN  /\ Len(h) = 5
        /\ \A i \in 1..4 : h[i].alerts = 0
        /\ h[5].alerts = 1
        /\ emitted["BRUTE_FORCE"]["10.0.0.1"] = 1

(* --------------------------------- C2 --------------------------------- *)
\* C2: for an event that is not a failed authentication, the brute-force
\* evaluator changes no counter (value or time-to-live) and no BRUTE_FORCE
\* alert is sent for it, whatever the counters hold.
NotFailedLogin(e) == e.EventType # s_authentication \/ e.Result # "failed"

C2_OtherEventsLeaveCounters ==
    /\ [][\A w \in Workers :
            (Steps(w, BruteForceStage) /\ NotFailedLogin(event[w])) =>
                (redis' = redis /\ pc'[w] = "pe" /\ alertChan' = alertChan)]_vars
    /\ [](\A w \in Workers :
            (event[w] # NoEvent /\ NotFailedLogin(event[w])) =>
                (pc[w] \notin {"bfExpire", "bfSend"}
                    /\ Occurrences(out[w], "BRUTE_FORCE") = 0))

\* a successful login has passed the brute-force evaluator while the
\* failed_auth counter of its address stands at 4
C2_Witness ==
    /\ pc[1] = "pe"
    /\ event[1].EventType = s_authentication
    /\ event[1].Result = "success"
    /\ redis[FailedAuthKey(event[1])].val = 4

(* --------------------------------- C3 --------------------------------- *)
\* C3: whenever a BRUTE_FORCE alert is built for an address, at least 5
\* failed logins of that address were counted within the 5 minutes before.
C3_AlertMeansFiveInWindow ==
    \A w \in Workers :
        (pc[w] = "bfSend" /\ alert[w].Timestamp = now) =>
            LET a == ages[event[w].SourceIP]
            IN  Len(a) >= 5 /\ a[5] <= Window

(* --------------------------------- C4 --------------------------------- *)
\* C4: for an event whose lower-cased raw log contains "invalid user", with
\* the store available, the suspicious-user evaluator adds exactly one to
\* the invalid_user counter of the address, sets its time-to-live to 5
\* minutes, and sends a HIGH SUSPICIOUS_USER alert iff the new count is >= 3.
C4_SuspiciousUserCounts ==
    /\ [][\A w \in Workers :
            LET key == Key("invalid_user:", event[w].SourceIP)
            IN  /\ (Steps(w, {"su"}) /\ redisUp
                        /\ Contains(ToLower(event[w].RawLog), s_invalid_user)) =>
                      /\ redis'[key].val = redis[key].val + 1
                      /\ \A k \in Keys \ {key} : redis'[k] = redis[k]
                      /\ pc'[w] = "suExpire"
                /\ (Steps(w, {"suExpire"}) /\ redisUp) =>
                      /\ redis'[key].exp = now + 5
                      /\ redis'[key].val = redis[key].val
                      /\ (pc'[w] = "suSend") = (hist[key][slot[w]].count >= 3)]_vars
    /\ [](\A w \in Workers :
            LET key == Key("invalid_user:", event[w].SourceIP)
            IN  /\ pc[w] = "suExpire" =>
                    (slot[w] = Len(hist[key]) /\ hist[key][slot[w]].count = redis[key].val)
                /\ pc[w] = "suSend" => Sending(w, "SUSPICIOUS_USER", "HIGH"))

\* the third invalid-user line of an address: counter 3, five minutes to
\* live, the alert about to be sent
C4_Witness ==
    /\ pc[1] = "suSend"
    /\ redis[InvalidUserKey(event[1])] = [val |-> 3, exp |-> now + 5]
    /\ ~failed

(* --------------------------------- C5 --------------------------------- *)
\* C5: two invalid-user events, then the expiry of the counter, then two
\* more send no SUSPICIOUS_USER alert: the counts read 1, 2, 1, 2.
C5_ExpiryRestartsCount ==
    \A ip \in SourceIPs :
        LET k == Key("invalid_user:", ip)
        IN  (~failed /\ Len(past[k]) = 1 /\ Len(past[k][1]) = 2 /\ Len(hist[k]) <= 2) =>
              /\ \A i \in 1..2 : past[k][1][i].count = i /\ past[k][1][i].alerts # 1
              /\ \A i \in 1..Len(hist[k]) : hist[k][i].count = i /\ hist[k][i].alerts # 1
              /\ emitted["SUSPICIOUS_USER"][ip] = 0
              /\ \A w \in Workers : ~(pc[w] = "suSend" /\ event[w].SourceIP = ip)

\* two events were counted, the counter expired, and two more were counted
C5_Witness ==
    LET k == Key("invalid_user:", "10.0.0.1")
    IN  /\ Len(past[k]) = 1
        /\ Len(past[k][1]) = 2
        /\ Len(hist[k]) = 2
        /\ hist[k][2].alerts = 0

(* --------------------------------- C6 --------------------------------- *)
\* the lower-cased raw log names a sensitive file or command
SensitiveTarget(e) ==
    \/ Contains(ToLower(e.RawLog), s_etc_shadow)
    \/ Contains(ToLower(e.RawLog), s_etc_passwd)
    \/ Contains(ToLower(e.RawLog), s_root)
    \/ Contains(ToLower(e.RawLog), s_chmod_777)
    \/ Contains(ToLower(e.RawLog), s_useradd)

\* a sudo action or a privilege event type, on a sensitive target
Escalation(e) ==
    /\ \/ Contains(ToLower(e.Action), s_sudo)
       \/ Contains(ToLower(e.EventType), s_privilege)
    /\ SensitiveTarget(e)

\* the privilege-escalation evaluator has run for the event in hand
EscalationDecided(w) == pc[w] \in {"peSend"} \cup SuspiciousStage

\* ... and has matched it
EscalationMatched(w) ==
    pc[w] = "peSend" \/ Occurrences(out[w], "PRIVILEGE_ESCALATION") > 0

\* C6 as claimed: the evaluator matches exactly when the lower-cased action
\* or the lower-cased event type contains "sudo" or "privilege", and the
\* lower-cased raw log names a sensitive target.
C6_AnyFieldAnyWord ==
    \A w \in Workers :
        EscalationDecided(w) =>
            (EscalationMatched(w) <=>
                /\ \/ Contains(ToLower(event[w].Action), s_sudo)
                   \/ Contains(ToLower(event[w].Action), s_privilege)
                   \/ Contains(ToLower(event[w].EventType), s_sudo)
                   \/ Contains(ToLower(event[w].EventType), s_privilege)
                /\ SensitiveTarget(event[w]))

\* C6 as amended: the evaluator matches exactly when (the lower-cased action
\* contains "sudo" or the lower-cased event type contains "privilege") and
\* the lower-cased raw log names a sensitive target.
C6_SudoActionOrPrivilegeType ==
    \A w \in Workers :
        EscalationDecided(w) => (EscalationMatched(w) <=> Escalation(event[w]))

\* an event of type PRIVILEGE_CHANGE with action "login" on /ETC/PASSWD has
\* been matched
C6_Witness ==
    /\ pc[1] = "peSend"
    /\ event[1].EventType = t_PRIVILEGE_CHANGE
    /\ event[1].Action = a_login
    /\ event[1].RawLog = r_CAT_PASSWD

(* --------------------------------- C7 --------------------------------- *)
\* the privilege-escalation evaluator has run for the event in hand and its
\* alert, if any, is on the channel
EscalationDone(w) == pc[w] \in SuspiciousStage

\* C7 as claimed: every event whose raw log contains "sudo" and
\* "/etc/shadow" sends exactly one MEDIUM PRIVILEGE_ESCALATION alert.
C7_SudoInRawLog ==
    \A w \in Workers :
        (Contains(event[w].RawLog, s_sudo) /\ Contains(event[w].RawLog, s_etc_shadow)) =>
            /\ EscalationDecided(w) => EscalationMatched(w)
            /\ pc[w] = "peSend" => Sending(w, "PRIVILEGE_ESCALATION", "MEDIUM")
            /\ EscalationDone(w) => Occurrences(out[w], "PRIVILEGE_ESCALATION") = 1

\* C7 as amended: every event whose lower-cased action contains "sudo" and
\* whose lower-cased raw log contains "/etc/shadow" sends exactly one MEDIUM
\* PRIVILEGE_ESCALATION alert, whatever its other fields and whatever the
\* store holds or whether it can be reached.
C7_SudoInAction ==
    \A w \in Workers :
        (Contains(ToLower(event[w].Action), s_sudo)
            /\ Contains(ToLower(event[w].RawLog), s_etc_shadow)) =>
            /\ EscalationDecided(w) => EscalationMatched(w)
            /\ pc[w] = "peSend" => Sending(w, "PRIVILEGE_ESCALATION", "MEDIUM")
            /\ EscalationDone(w) => Occurrences(out[w], "PRIVILEGE_ESCALATION") = 1

\* a sudo on /etc/shadow has sent its one alert while the store is down
C7_Witness ==
    /\ pc[1] = "su"
    /\ event[1].Action = a_Sudo
    /\ event[1].RawLog = r_cat_shadow
    /\ out[1] = <<"PRIVILEGE_ESCALATION">>
    /\ ~redisUp

(* --------------------------------- C8 --------------------------------- *)
\* workers that hold a matching event of the address and have not yet sent
\* its PRIVILEGE_ESCALATION alert
EscalationsDue(ip) ==
    Cardinality({w \in Workers :
        /\ pc[w] \in BruteForceStage \cup EscalationStage
        /\ event[w].SourceIP = ip
        /\ Escalation(event[w])})

\* C8: the privilege-escalation evaluator reads and writes no counter, and
\* N matching events send N MEDIUM PRIVILEGE_ESCALATION alerts: nothing is
\* rate-limited, whatever the store holds.
C8_EscalationNotRateLimited ==
    /\ [][\A w \in Workers : Steps(w, EscalationStage) => redis' = redis]_vars
    /\ [](\A ip \in SourceIPs :
            emitted["PRIVILEGE_ESCALATION"][ip] + EscalationsDue(ip) = matched[ip])
    /\ [](\A w \in Workers :
            pc[w] = "peSend" => Sending(w, "PRIVILEGE_ESCALATION", "MEDIUM"))

\* the same sudo event was processed three times and sent three alerts
C8_Witness ==
    /\ matched["10.0.0.1"] = 3
    /\ emitted["PRIVILEGE_ESCALATION"]["10.0.0.1"] = 3
    /\ redis[Key("invalid_user:", "10.0.0.1")].val = 3

(* --------------------------------- C9 --------------------------------- *)
\* the brute-force evaluator has counted the event in hand and found >= 5
BruteForceMatched(w) ==
    LET h == hist[Key("failed_auth:", event[w].SourceIP)]
    IN  ~NotFailedLogin(event[w]) /\ Len(h) = 1 /\ h[1].count >= 5

\* the suspicious-user evaluator has counted the event in hand and found >= 3
SuspiciousUserMatched(w) ==
    LET h == hist[Key("invalid_user:", event[w].SourceIP)]
    IN  Contains(ToLower(event[w].RawLog), s_invalid_user) /\ Len(h) = 1 /\ h[1].count >= 3

\* C9: every decoded event passes the three evaluators in turn; each rule
\* that matches sends exactly one alert; the failed_auth and invalid_user
\* counters of an address are two counters, and the evaluator of one rule
\* never changes the counter of the other.
C9_OneAlertPerMatchingRule ==
    /\ [][\A w \in Workers :
            /\ Steps(w, {"read"}) => pc'[w] = "bf"
            /\ Steps(w, BruteForceStage) => pc'[w] \in {"bfExpire", "bfSend", "pe"}
            /\ Steps(w, EscalationStage) => pc'[w] \in {"peSend", "su"}
            /\ Steps(w, SuspiciousStage) => pc'[w] \in {"suExpire", "suSend", "read"}
            /\ Steps(w, {"bfSend", "peSend", "suSend"}) =>
                    alertChan' = Append(alertChan, alert[w])
            /\ Steps(w, BruteForceStage) =>
                    \A ip \in SourceIPs :
                        redis'[Key("invalid_user:", ip)] = redis[Key("invalid_user:", ip)]
            /\ Steps(w, SuspiciousStage) =>
                    \A ip \in SourceIPs :
                        redis'[Key("failed_auth:", ip)] = redis[Key("failed_auth:", ip)]]_vars
    /\ [](\A w \in Workers :
            /\ pc[w] \in SuspiciousStage =>
                    out[w] = (IF BruteForceMatched(w) THEN <<"BRUTE_FORCE">> ELSE <<>>)
                             \o (IF Escalation(event[w])
                                 THEN <<"PRIVILEGE_ESCALATION">> ELSE <<>>)
            /\ pc[w] = "suSend" =>
                    (SuspiciousUserMatched(w) /\ alert[w].ThreatType = "SUSPICIOUS_USER"))
    /\ [](\A ip \in SourceIPs :
            LET h == hist[Key("invalid_user:", ip)]
            IN  \A i \in 1..Len(h) : h[i].alerts # -1 => (h[i].alerts = 1 <=> h[i].count >= 3))

\* one event has matched all three rules: two alerts are sent, the third is
\* about to be
C9_Witness ==
    /\ pc[1] = "suSend"
    /\ out[1] = <<"BRUTE_FORCE", "PRIVILEGE_ESCALATION">>
    /\ redis[FailedAuthKey(event[1])].val # redis[InvalidUserKey(event[1])].val

(* --------------------------------- C10 -------------------------------- *)
\* workers that hold an event the rule of key k counts and have not yet
\* called Incr for it
IncrementsDue(k) ==
    Cardinality({w \in Workers :
        \/ /\ k = Key("failed_auth:", event[w].SourceIP)
           /\ ~NotFailedLogin(event[w])
           /\ pc[w] = "bf"
        \/ /\ k = Key("invalid_user:", event[w].SourceIP)
           /\ Contains(ToLower(event[w].RawLog), s_invalid_user)
           /\ pc[w] \in BruteForceStage \cup EscalationStage \cup {"su"}})

\* C10: with no expiry and no store failure, whatever worker takes which
\* event and however their Incr and Expire calls interleave, a counter
\* equals the number of events its rule counts that were read, less those
\* still waiting for their Incr; with every worker idle it is exactly K.
C10_CountEqualsQualifyingEvents ==
    \A k \in Keys : redis[k].val + IncrementsDue(k) = fed[k]

\* two workers are both between Incr and Expire of the same counter
C10_Witness ==
    /\ pc[1] = "suExpire"
    /\ pc[2] = "suExpire"
    /\ event[1].SourceIP = event[2].SourceIP
    /\ redis[InvalidUserKey(event[1])].val = 4
    /\ fed[InvalidUserKey(event[1])] = 4

(* --------------------------------- C11 -------------------------------- *)
WorkerSends(w) == pc[w] \in {"bfSend", "peSend", "suSend"} /\ pc'[w] # pc[w]

AllHanded == \A i \in 1..Len(mark) : mark[i].handed

\* C12: every alert that is on the alert channel (or in the publisher's
\* hand) when the shutdown is requested is handed to the outbound transport:
\* eventually, and before the publisher returns.
C12_QueuedAlertsAreHanded ==
    /\ [](\A p \in Publishers : pub[p] = "done" => (AllHanded /\ pending = <<>>))
    /\ [](coord # "running" => <>AllHanded)

\* two alerts were pending at the shutdown request; both are written and the
\* publisher has returned
C12_Witness ==
    /\ Len(mark) >= 2
    /\ AllHanded
    /\ \A p \in Publishers : pub[p] = "done"

(* --------------------------------- C13 -------------------------------- *)
\* the alerts the publishers have received and not yet written
InHand == IF pub[1] = "write" THEN <<hand[1]>> ELSE <<>>

\* C13: the publisher forwards the alerts one at a time in the order they
\* were sent on the channel, whatever the number of workers sending: the
\* alert it writes is always the oldest one not yet written, and it holds at
\* most one alert at a time.
C13_ForwardedInChannelOrder ==
    /\ [][\A p \in Publishers :
            (pub[p] = "write" /\ pub'[p] # "write") =>
                (pending # <<>> /\ hand[p] = Head(pending) /\ pending' = Tail(pending))]_vars
    /\ [](pending = InHand \o alertChan)
    /\ [](Cardinality({p \in Publishers : pub[p] = "write"}) <= 1)

\* alerts of two addresses, sent by different workers, were pending in the
\* order of their sends, and the publisher has written the older one
C13_Witness ==
    /\ Len(pending) = 1
    /\ Handed = 1
    /\ pub[1] = "receive"
    /\ matched["10.0.0.1"] >= 1
    /\ matched["10.0.0.2"] >= 1
    /\ emitted["PRIVILEGE_ESCALATION"]["10.0.0.1"] = 1
    /\ emitted["PRIVILEGE_ESCALATION"]["10.0.0.2"] = 1

(* --------------------------------- C14 -------------------------------- *)
\* the increment of the brute-force evaluator has failed for the event in
\* hand (one event per run: a successful increment leaves an entry in hist)
BruteForceAbstained(w) ==
    /\ pc[w] \in EscalationStage \cup SuspiciousStage
    /\ ~NotFailedLogin(event[w])
    /\ hist[FailedAuthKey(event[w])] = <<>>

\* C14: when Incr fails in an evaluator, that evaluator sends no alert for
\* the event and changes no counter, the worker goes on with the same event,
\* the evaluators after it still run and send their alerts, and the worker
\* returns to the top of its loop.
C14_IncrErrorAbstains ==
    /\ [][\A w \in Workers :
            (Steps(w, {"bf"}) /\ ~redisUp /\ ~NotFailedLogin(event[w])) =>
                /\ pc'[w] = "pe"
                /\ event'[w] = event[w]
                /\ alertChan' = alertChan
                /\ redis' = redis]_vars
    /\ [][\A w \in Workers :
            (Steps(w, {"su"}) /\ ~redisUp /\ isInvalidUser(event[w])) =>
                /\ pc'[w] = "read"
                /\ alertChan' = alertChan
                /\ redis' = redis]_vars
    /\ [](\A w \in Workers :
            BruteForceAbstained(w) =>
                /\ Occurrences(out[w], "BRUTE_FORCE") = 0
                /\ alert[w].ThreatType # "BRUTE_FORCE"
                /\ pc[w] \in SuspiciousStage =>
                      out[w] = (IF Escalation(event[w])
                                THEN <<"PRIVILEGE_ESCALATION">> ELSE <<>>))
    /\ [][\A w \in Workers :
            (BruteForceAbstained(w) /\ Steps(w, {"su"}) /\ redisUp
                /\ isInvalidUser(event[w])) =>
                    /\ pc'[w] = "suExpire"
                    /\ redis'[InvalidUserKey(event[w])].val
                           = redis[InvalidUserKey(event[w])].val + 1]_vars

\* Incr failed in the brute-force evaluator; the privilege-escalation alert
\* of the same event is sent and the suspicious-user alert is about to be
C14_Witness ==
    /\ BruteForceAbstained(1)
    /\ pc[1] = "suSend"
    /\ out[1] = <<"PRIVILEGE_ESCALATION">>
    /\ alert[1].ThreatType = "SUSPICIOUS_USER"

(* --------------------------------- C15 -------------------------------- *)
\* C15: when Expire fails after a successful Incr, the evaluator abstains:
\* it sends no alert for the event, even when the count it read has reached
\* the threshold.
C15_ExpireErrorAbstains ==
    [][\A w \in Workers :
          /\ (Steps(w, {"bfExpire"}) /\ ~redisUp) =>
                (pc'[w] = "pe" /\ alert'[w] = alert[w])
          /\ (Steps(w, {"suExpire"}) /\ ~redisUp) =>
                (pc'[w] = "read" /\ alert'[w] = alert[w])]_vars

(* --------------------------------- C16 -------------------------------- *)
\* C16: a message that does not parse is dropped: the step changes no
\* counter and sends no alert, no worker leaves its position, and the worker
\* that read it is at the top of its loop, where it reads the next message.
C16_UndecodableIsDropped ==
    /\ [][dropped' # dropped =>
            /\ redis' = redis
            /\ alertChan' = alertChan
            /\ emitted' = emitted
            /\ alert' = alert
            /\ event' = event
            /\ pc' = pc
            /\ \E w \in Workers : pc[w] = "read"]_vars
    /\ [](\A w \in Workers : pc[w] \in {"read"} \cup BruteForceStage
                                     \cup EscalationStage \cup SuspiciousStage)

\* a message was dropped, and since then every worker has read an event and
\* is evaluating it
C16_Witness ==
    /\ dropped >= 1
    /\ \A w \in Workers : pc[w] = "bf" /\ event[w] # NoEvent
    /\ nRead = dropped + NumWorkers

(* --------------------------------- C17 -------------------------------- *)
\* C17: when ReadMessage fails because the inbound transport is closed or
\* the context is cancelled, the worker leaves its loop; it does not go back
\* to call ReadMessage on the failed transport.
C17_FatalReadErrorExits ==
    [][\A w \in Workers :
          (pc[w] = "readErr" /\ pc'[w] # pc[w]) => pc'[w] = "done"]_vars

(* --------------------------------- C18 -------------------------------- *)
SendStage == {"bfSend", "peSend", "suSend"}

\* C18: the alert channel never holds more alerts than its capacity; a
\* worker with an alert to send while the channel is full stays where it is
\* with the alert in its hand, and when it sends, the alert goes onto the
\* channel: every alert created is in a worker's hand, on the channel, or
\* taken off by the publisher, and nowhere else.
C18_AlertChannelBounded ==
    /\ [](Len(alertChan) <= ChanCap)
    /\ [][\A w \in Workers :
            (pc[w] \in SendStage /\ Len(alertChan) = ChanCap) =>
                (pc'[w] = pc[w] /\ alert'[w] = alert[w])]_vars
    /\ [](\A w \in Workers : pc[w] \in SendStage <=> alert[w] # NoAlert)
    /\ [][\A w \in Workers :
            WorkerSends(w) =>
                (Len(alertChan) < ChanCap /\ alertChan' = Append(alertChan, alert[w]))]_vars
    /\ [](pending = alertChan /\ Enqueued = Handed + Len(alertChan))

\* the channel is full and a worker waits with an alert in its hand
C18_Witness ==
    /\ Len(alertChan) = ChanCap
    /\ \E w \in Workers : pc[w] \in SendStage /\ alert[w] # NoAlert
    /\ Handed >= 1

(* --------------------------------- C19 -------------------------------- *)
\* C19: no two alerts carry the same alert_id, whichever workers created
\* them and however close in time.
C19_AlertIdsUnique ==
    \A i, j \in 1..Len(alertChan) :
        i # j => alertChan[i].AlertID # alertChan[j].AlertID

(* --------------------------------- C20 -------------------------------- *)
\* C20: the event_count of a BRUTE_FORCE or SUSPICIOUS_USER alert is the
\* counter value Incr returned for the event that triggered it; only a
\* PRIVILEGE_ESCALATION alert has event_count 0.
C20_EventCountIsTriggeringCount ==
    /\ \A w \in Workers :
          (pc[w] \in {"bfSend", "suSend"} /\ slot[w] # 0) =>
              alert[w].EventCount = hist[KeyInHand(w)][slot[w]].count
    /\ \A i \in 1..Len(alertChan) :
          alertChan[i].EventCount = 0 => alertChan[i].ThreatType = "PRIVILEGE_ESCALATION"

(* --------------------------------- C21 -------------------------------- *)
\* C21: a worker returns only when ReadMessage has reported the
\* cancellation, and then reads no further message; it holds no event and no
\* alert at that point: an event it has received passes the three evaluators
\* and each alert it yields is on the channel before the worker returns.
C21_FinishEventThenExit ==
    /\ [][\A w \in Workers :
            (pc[w] # "done" /\ pc'[w] = "done") =>
                /\ pc[w] = "readErr"
                /\ err[w] = "context.Canceled"
                /\ event[w] = NoEvent
                /\ alert[w] = NoAlert
                /\ nRead' = nRead]_vars
    /\ [][\A w \in Workers :
            (pc[w] = "readErr" /\ err[w] = "context.Canceled" /\ pc'[w] # pc[w]) =>
                pc'[w] = "done"]_vars
    /\ [][\A w \in Workers :
            pc[w] = "done" => (pc'[w] = "done" /\ event'[w] = NoEvent)]_vars
    /\ [][\A w \in Workers :
            /\ Steps(w, BruteForceStage) => pc'[w] \in {"bfExpire", "bfSend", "pe"}
            /\ Steps(w, {"pe"}) =>
                  pc'[w] = (IF Escalation(event[w]) THEN "peSend" ELSE "su")
            /\ Steps(w, {"peSend"}) =>
                  (pc'[w] = "su" /\ alertChan' = Append(alertChan, alert[w]))
            /\ Steps(w, SuspiciousStage) => pc'[w] \in {"suExpire", "suSend", "read"}]_vars
    /\ [](\A ip \in SourceIPs :
            emitted["PRIVILEGE_ESCALATION"][ip] + EscalationsDue(ip) = matched[ip])

\* the workers have all returned after the shutdown request; every event
\* that was read has its alert on the channel or written out
C21_Witness ==
    /\ canceled
    /\ \A w \in Workers : pc[w] = "done"
    /\ nRead = MaxEvents
    /\ Enqueued + (MaxEvents - 3) = nRead
    /\ Len(mark) <= 1

(* --------------------------------- C22 -------------------------------- *)
\* C22: when the write of an alert to the outbound transport fails, the
\* publisher drops that alert: it is not written again and not put back on
\* the channel, and the publisher goes back to receive the next alert; the
\* publisher returns only when the channel is closed and empty.
C22_FailedWriteIsDropped ==
    /\ [][lost' # lost =>
            /\ lost' = lost + 1
            /\ alertChan' = alertChan
            /\ pending' = Tail(pending)
            /\ \E p \in Publishers :
                  /\ pub[p] = "write" /\ pub'[p] = "receive"
                  /\ hand[p] = Head(pending)
                  /\ hand'[p] = NoAlert]_vars
    /\ [](pending = InHand \o alertChan)
    /\ [](\A p \in Publishers : pub[p] = "done" => (chanClosed /\ alertChan = <<>>))
    /\ [](lost <= Handed /\ Handed <= Enqueued)

\* two of three writes have failed: after a failed write the publisher has
\* received and written the next alert
C22_Witness ==
    /\ lost = 2
    /\ Handed = 3
    /\ pending = <<>>
    /\ \A p \in Publishers : pub[p] = "receive"

(* --------------------------------- C23 -------------------------------- *)
\* a step of a goroutine registered in td.wg
GoroutineStep ==
    \/ \E w \in Workers : ReadMessage(w, LifeEvents)
    \/ \E w \in Workers : ReadFails(w)
    \/ \E w \in Workers : ReadError(w)
    \/ \E w \in Workers : BruteForceIncr(w)
    \/ \E w \in Workers : CheckPrivilegeEscalation(w)
    \/ \E w \in Workers : SendPrivilegeEscalation(w)
    \/ \E w \in Workers : SuspiciousUserIncr(w)
    \/ \E p \in Publishers : PublisherReceive(p)
    \/ \E p \in Publishers : PublisherWrite(p)
    \/ \E p \in Publishers : PublisherExit(p)

\* C23: there is no deadlock after a shutdown request: when Shutdown is in its
\* wait and no worker and no publisher can take another step, they have all
\* returned and the wait returns.
C23_WaitReturns ==
    (coord = "waiting" /\ ~ENABLED GoroutineStep) => ENABLED ShutdownWaitGroup

(* --------------------------------- C24 -------------------------------- *)
\* the threshold and the alert type of a counter's rule
ThresholdOf(k) ==
    IF k[1] = "failed_auth:" THEN BruteForceThreshold ELSE SuspiciousUserThreshold

TypeOf(k) == IF k[1] = "failed_auth:" THEN "BRUTE_FORCE" ELSE "SUSPICIOUS_USER"

\* the alerts K events of a rule with threshold T give: max(0, K - T + 1)
AlertsDue(K, T) == IF K >= T THEN K - T + 1 ELSE 0

\* the entries of a counter's history with n alerts
Settled(k, n) == Cardinality({i \in 1..Len(hist[k]) : hist[k][i].alerts = n})

\* C24: with no expiry and no store failure, the K events a rule counts for
\* one address, spread over concurrent workers, return the counts 1..K from
\* Incr, each once; every count from the threshold on sends one alert and no
\* other does, so that with every worker idle there are max(0, K - T + 1)
\* alerts of the rule for the address.
C24_OneAlertPerCountFromThreshold ==
    \A k \in Keys :
        /\ \A i \in 1..Len(hist[k]) :
              /\ hist[k][i].count = i
              /\ hist[k][i].alerts \in {-1, IF i >= ThresholdOf(k) THEN 1 ELSE 0}
        /\ emitted[TypeOf(k)][k[2]] = Settled(k, 1)
        /\ (\A w \in Workers : pc[w] = "read") =>
              /\ Len(hist[k]) = fed[k]
              /\ Settled(k, -1) = 0
              /\ emitted[TypeOf(k)][k[2]] = AlertsDue(fed[k], ThresholdOf(k))

\* five events of an unknown user from one address are through, the two
\* workers idle: three SUSPICIOUS_USER alerts, for the counts 3, 4 and 5
C24_Witness ==
    /\ \A w \in Workers : pc[w] = "read"
    /\ fed[Key("invalid_user:", "10.0.0.1")] = MaxEvents
    /\ emitted["SUSPICIOUS_USER"]["10.0.0.1"] = MaxEvents - SuspiciousUserThreshold + 1
    /\ emitted["SUSPICIOUS_USER"]["10.0.0.1"] > 1

(* --------------------------------- C25 -------------------------------- *)
\* a worker is between the Incr and the Expire of counter k
BetweenIncrAndExpire(k) ==
    \E w \in Workers :
        \/ pc[w] = "bfExpire" /\ k = FailedAuthKey(event[w])
        \/ pc[w] = "suExpire" /\ k = InvalidUserKey(event[w])

\* C25: a counter this run has created (its first Incr returned 1) has a
\* time-to-live of at most the window whenever no worker is between its Incr
\* and its Expire, store failures included.
C25_CountersExpire ==
    \A k \in Keys :
        (/\ hist[k] # <<>>
         /\ hist[k][1].count = 1
         /\ redis[k].val > 0
         /\ ~BetweenIncrAndExpire(k)) =>
            (redis[k].exp # NoExpiry /\ redis[k].exp <= now + Window)

(* --------------------------------- C26 -------------------------------- *)
\* worker w is in an evaluator that works on a counter
CounterStage == {"bf", "bfExpire", "su", "suExpire"}

\* C26: a counter changes, in value or time-to-live, only in a step of a
\* worker whose event has the counter's address; an alert a worker holds or
\* sends has the address of the worker's event.
C26_CountersPerAddress ==
    /\ [][\A k \in Keys :
            redis'[k] # redis[k] =>
                \E w \in Workers : /\ Steps(w, CounterStage)
                                   /\ event[w].SourceIP = k[2]]_vars
    /\ [](\A w \in Workers :
            alert[w] # NoAlert => alert[w].SourceIP = event[w].SourceIP)
    /\ [][\A w \in Workers :
            WorkerSends(w) =>
                /\ alertChan' = Append(alertChan, alert[w])
                /\ alertChan'[Len(alertChan')].SourceIP = event[w].SourceIP]_vars

\* an event of 10.0.0.2 has raised both counters of its address and sends
\* its alert, while the counters of 10.0.0.1 hold what they held at the start
C26_Witness ==
    /\ pc[1] = "suSend"
    /\ event[1].SourceIP = "10.0.0.2"
    /\ alert[1].SourceIP = "10.0.0.2"
    /\ Len(hist[Key("failed_auth:", "10.0.0.2")]) = 1
    /\ Len(hist[Key("invalid_user:", "10.0.0.2")]) = 1
    /\ hist[Key("failed_auth:", "10.0.0.1")] = <<>>
    /\ redis[Key("failed_auth:", "10.0.0.1")].val > 0
    /\ redis[Key("invalid_user:", "10.0.0.1")].val > 0

====
